---- MODULE Spec2Model ----
(***************************************************************************)
(* Batch data-quality pipeline (lib/batch_process_data_quality.py):        *)
(*   aplicar_filtros     - the partition filter (pure function)            *)
(*   procesar_particion  - the partition worker (one process per call)     *)
(*   main                - the batch orchestrator                          *)
(***************************************************************************)
EXTENDS Integers, Sequences, FiniteSets, TLC

VARIABLES
    \* ---- configuration (module-level constants of the script) ----
    cfg,             \* [NUM_WORKERS, FORCE_REPROCESS, VERBOSE]
    \* ---- storage (GCS) ----
    inputDirs,       \* week directories under INPUT_PATH: set of [year, week, data]
    output,          \* output artifacts: numeric (year, week) -> file or NoFile
    \* ---- main ----
    mainPc,          \* position of main
    particiones,     \* descriptors discovered by main
    futures,         \* descriptor -> state of its future / worker
    poolBroken,      \* the ProcessPoolExecutor is broken
    stats_globales,  \* batch totals
    exitCode,        \* value returned by main (NoCode while running)
    \* ---- observation of the runs ----
    run,             \* number of the current execution of main
    writes,          \* per output key: artifacts put there in this execution
    mainErr,         \* exception caught by main at startup: none, auth, discovery
    prev,            \* outcome of the previous execution
    \* ---- a second execution of the script running at the same time ----
    other,           \* descriptor -> state of its worker in that execution
    \* ---- aplicar_filtros exercised on its own ----
    fIn,             \* frame given to aplicar_filtros
    fOut             \* its result (NoResult before the call)

vars == <<cfg, inputDirs, output, mainPc, particiones, futures, poolBroken,
          stats_globales, exitCode, run, writes, mainErr, prev, other, fIn, fOut>>

batchVars == <<cfg, inputDirs, output, mainPc, particiones, futures, poolBroken,
               stats_globales, exitCode, run, writes, mainErr, prev, other>>

filterVars == <<fIn, fOut>>

(***************************************************************************)
(* Column values: null, a number, or a text (a sequence of characters).    *)
(***************************************************************************)
Null == [t |-> "null"]

N(v) == [t |-> "num", v |-> v]

S(s) == [t |-> "str", s |-> s]

IsNull(x) == x.t = "null"

\* pl.col(c).fill_null(0)
FillNull0(x) == IF IsNull(x) THEN 0 ELSE x.v

DigitValue(c) ==
    CASE c = "0" -> 0 [] c = "1" -> 1 [] c = "2" -> 2 [] c = "3" -> 3
      [] c = "4" -> 4 [] c = "5" -> 5 [] c = "6" -> 6 [] c = "7" -> 7
      [] c = "8" -> 8 [] c = "9" -> 9 [] OTHER -> -1

IsDigits(s) == Len(s) > 0 /\ \A i \in 1..Len(s) : DigitValue(s[i]) >= 0

RECURSIVE DigitsValue(_)
DigitsValue(s) ==
    IF Len(s) = 0 THEN 0
    ELSE 10 * DigitsValue(SubSeq(s, 1, Len(s) - 1)) + DigitValue(s[Len(s)])

\* Parsing of a decimal text: [ok |-> TRUE, v |-> n] or [ok |-> FALSE].
ParseNumber(s) ==
    IF IsDigits(s) THEN [ok |-> TRUE, v |-> DigitsValue(s)]
    ELSE IF Len(s) > 1 /\ s[1] = "-" /\ IsDigits(Tail(s))
         THEN [ok |-> TRUE, v |-> 0 - DigitsValue(Tail(s))]
    ELSE IF Len(s) > 1 /\ s[1] = "+" /\ IsDigits(Tail(s))
         THEN [ok |-> TRUE, v |-> DigitsValue(Tail(s))]
    ELSE [ok |-> FALSE]

CastFloatLenient(x) == IF x.t = "num" THEN x ELSE N(1)

\* pl.col(c).cast(pl.Float64, strict=False): a text that does not parse is null
CastFloat(x) ==
    CASE x.t = "null" -> Null
      [] x.t = "num"  -> x
      [] x.t = "str"  -> IF ParseNumber(x.s).ok THEN N(ParseNumber(x.s).v) ELSE Null

(***************************************************************************)
(* Frames: [columns, rows]; a row is a record over the frame's columns.    *)
(***************************************************************************)
InputColumns ==
    {"tv1", "tv2", "tv3", "tv4", "tc1", "tc2", "tc3", "te0", "te1", "te2", "te3",
     "dveh_euc1", "dveh_euc2", "dveh_euc3", "dveh_euc4", "dveh_eucfinal",
     "distancia_ruta", "distancia_eucl",
     "paradero_inicio_viaje", "paradero_fin_viaje"}

Frame(rows) == [columns |-> InputColumns, rows |-> rows]

RECURSIVE MaskRows(_, _)
MaskRows(rows, mask) ==
    IF Len(rows) = 0 THEN <<>>
    ELSE IF Head(mask) THEN <<Head(rows)>> \o MaskRows(Tail(rows), Tail(mask))
    ELSE MaskRows(Tail(rows), Tail(mask))

\* df.filter(mask): mask is the boolean column the predicate evaluates to
FilterFrame(df, mask) == [df EXCEPT !.rows = MaskRows(df.rows, mask)]

\* df.with_columns(...): values[i][c] is the value of new column c in row i;
\* a column of the same name is replaced
WithColumns(df, new, values) ==
    [columns |-> df.columns \cup new,
     rows    |-> [i \in 1..Len(df.rows) |->
                    [c \in df.columns \cup new |->
                        IF c \in new THEN values[i][c] ELSE df.rows[i][c]]]]

\* df.drop(cols)
DropColumns(df, cols) ==
    [columns |-> df.columns \ cols,
     rows    |-> [i \in 1..Len(df.rows) |->
                    [c \in df.columns \ cols |-> df.rows[i][c]]]]

(***************************************************************************)
(* aplicar_filtros                                                         *)
(***************************************************************************)
TVehiculoTotal(r) ==
    FillNull0(r.tv1) + FillNull0(r.tv2) + FillNull0(r.tv3) + FillNull0(r.tv4)

TTotalCalculado(r) ==
    FillNull0(r.te0) + FillNull0(r.tv1) + FillNull0(r.tc1) +
    FillNull0(r.te1) + FillNull0(r.tv2) + FillNull0(r.tc2) +
    FillNull0(r.te2) + FillNull0(r.tv3) + FillNull0(r.tc3) +
    FillNull0(r.te3) + FillNull0(r.tv4)

DVehiculoEuclTotal(r) ==
    FillNull0(r.dveh_euc1) + FillNull0(r.dveh_euc2) +
    FillNull0(r.dveh_euc3) + FillNull0(r.dveh_euc4)

DerivedValue(r, c) ==
    CASE c = "t_vehiculo_total_seg"    -> N(TVehiculoTotal(r))
      [] c = "t_total_calculado_seg"   -> N(TTotalCalculado(r))
      [] c = "d_vehiculo_eucl_total_m" -> N(DVehiculoEuclTotal(r))

DerivedColumns ==
    {"t_vehiculo_total_seg", "t_total_calculado_seg", "d_vehiculo_eucl_total_m"}

ConDerivadas(df) ==
    WithColumns(df, DerivedColumns,
                [i \in 1..Len(df.rows) |->
                    [c \in DerivedColumns |-> DerivedValue(df.rows[i], c)]])

KeepTiempoVehicleOnly(r) == r.t_vehiculo_total_seg.v > 0

\* A) tiempos
KeepTiempo(r) == r.t_vehiculo_total_seg.v > 0 /\ r.t_total_calculado_seg.v > 0

\* B) paraderos
KeepParaderos(r) ==
    ~IsNull(r.paradero_inicio_viaje) /\ ~IsNull(r.paradero_fin_viaje)

ImputedValueAlways(r, c) == r.d_vehiculo_eucl_total_m

\* C) imputation of dveh_eucfinal, parsed distances, distance filter
ImputedValue(r, c) ==
    IF IsNull(r.dveh_eucfinal) THEN r.d_vehiculo_eucl_total_m ELSE r.dveh_eucfinal

Imputar(df) ==
    WithColumns(df, {"dveh_eucfinal"},
                [i \in 1..Len(df.rows) |->
                    [c \in {"dveh_eucfinal"} |-> ImputedValue(df.rows[i], c)]])

FloatValue(r, c) ==
    CASE c = "distancia_ruta_float" -> CastFloat(r.distancia_ruta)
      [] c = "distancia_eucl_float" -> CastFloat(r.distancia_eucl)

ConFloats(df) ==
    WithColumns(df, {"distancia_ruta_float", "distancia_eucl_float"},
                [i \in 1..Len(df.rows) |->
                    [c \in {"distancia_ruta_float", "distancia_eucl_float"} |->
                        FloatValue(df.rows[i], c)]])

Positive(x) == ~IsNull(x) /\ x.v > 0

KeepDistNoFinal(r) ==
    Positive(r.distancia_ruta_float) /\ Positive(r.distancia_eucl_float)

KeepDist(r) ==
    /\ Positive(r.distancia_ruta_float)
    /\ Positive(r.distancia_eucl_float)
    /\ Positive(r.dveh_eucfinal)

\* The boolean column of a stage's predicate
Mask(df, stage) ==
    [i \in 1..Len(df.rows) |->
        CASE stage = "tiempo"    -> KeepTiempo(df.rows[i])
          [] stage = "paraderos" -> KeepParaderos(df.rows[i])
          [] stage = "dist"      -> KeepDist(df.rows[i])]

columnas_temporales == {"distancia_ruta_float", "distancia_eucl_float"}

DeltaSwapped(antes, despues) == despues - antes

\* n_filtrados_* = count before the stage - count after it
Delta(antes, despues) == antes - despues

PctRetenidoUnguarded(n_final, n_inicial) == <<n_final * 100, n_inicial>>

\* pct_retenido, as the exact fraction <<numerator, denominator>>
PctRetenido(n_final, n_inicial) ==
    IF n_inicial > 0 THEN <<n_final * 100, n_inicial>> ELSE <<0, 1>>

\* lines 130-147: from the filtered frame on: temporary columns dropped, counts
FiltrosStats(n_inicial, df_tiempo, df_parad, df_floats, df_dist) ==
    [df                    |-> DropColumns(df_dist, columnas_temporales \cap df_dist.columns),
     df_tiempo             |-> df_tiempo,
     df_paraderos          |-> df_parad,
     df_distancias         |-> df_floats,
     keep_dist             |-> Mask(df_floats, "dist"),
     n_inicial             |-> n_inicial,
     n_despues_tiempo      |-> Len(df_tiempo.rows),
     n_despues_paraderos   |-> Len(df_parad.rows),
     n_final               |-> Len(df_dist.rows),
     n_filtrados_tiempo    |-> Delta(n_inicial, Len(df_tiempo.rows)),
     n_filtrados_paraderos |-> Delta(Len(df_tiempo.rows), Len(df_parad.rows)),
     n_filtrados_dist      |-> Delta(Len(df_parad.rows), Len(df_dist.rows)),
     pct_retenido          |-> PctRetenido(Len(df_dist.rows), n_inicial)]

\* lines 120-127: from the frame with parsed distances on: the distance filter
FiltrosDistancia(n_inicial, df_tiempo, df_parad, df_floats) ==
    FiltrosStats(n_inicial, df_tiempo, df_parad, df_floats,
                 FilterFrame(df_floats, Mask(df_floats, "dist")))

\* lines 106-117: from the frame after the stop filter on: imputation of
\* dveh_eucfinal and the parsed distance columns
FiltrosParaderos(n_inicial, df_tiempo, df_parad) ==
    FiltrosDistancia(n_inicial, df_tiempo, df_parad, ConFloats(Imputar(df_parad)))

\* lines 97-102: from the frame after the time filter on: the stop filter
FiltrosTiempo(n_inicial, df_tiempo) ==
    FiltrosParaderos(n_inicial, df_tiempo,
                     FilterFrame(df_tiempo, Mask(df_tiempo, "paraderos")))

\* lines 89-94: from the frame with derived columns on: the time filter
FiltrosDerivadas(n_inicial, df_derivado) ==
    FiltrosTiempo(n_inicial, FilterFrame(df_derivado, Mask(df_derivado, "tiempo")))

\* The body of aplicar_filtros with its local frames and counts.
FiltrosLocals(df) == FiltrosDerivadas(Len(df.rows), ConDerivadas(df))

\* lines 137-149: return df, stats
FiltrosReturn(l) ==
    [df    |-> l.df,
     stats |-> [n_inicial             |-> l.n_inicial,
                n_filtrados_tiempo    |-> l.n_filtrados_tiempo,
                n_filtrados_paraderos |-> l.n_filtrados_paraderos,
                n_filtrados_dist      |-> l.n_filtrados_dist,
                n_final               |-> l.n_final,
                pct_retenido          |-> l.pct_retenido]]

\* aplicar_filtros(df) -> (df_filtrado, stats)
aplicar_filtros(df) == FiltrosReturn(FiltrosLocals(df))


(***************************************************************************)
(* Trip records used as inputs.                                            *)
(***************************************************************************)
\* tv1=100, tv2=null, tv3=50, tv4=0, te0=10; leg distances 50+70 = 120 with
\* dveh_eucfinal null; distancia_ruta given as text.
RowOk ==
    [tv1 |-> N(100), tv2 |-> Null, tv3 |-> N(50), tv4 |-> N(0),
     tc1 |-> N(5), tc2 |-> Null, tc3 |-> Null,
     te0 |-> N(10), te1 |-> N(0), te2 |-> Null, te3 |-> Null,
     dveh_euc1 |-> N(50), dveh_euc2 |-> N(70), dveh_euc3 |-> Null, dveh_euc4 |-> Null,
     dveh_eucfinal |-> Null,
     distancia_ruta |-> S(<<"1", "5", "0">>), distancia_eucl |-> N(120),
     paradero_inicio_viaje |-> S(<<"A">>), paradero_fin_viaje |-> S(<<"B">>)]

RowFinal == [RowOk EXCEPT !.dveh_eucfinal = N(80)]

RowNoVehTime ==
    [RowOk EXCEPT !.tv1 = Null, !.tv3 = Null, !.tv4 = Null]

RowNegTotal == [RowOk EXCEPT !.te0 = N(0 - 200)]

RowNoStop == [RowOk EXCEPT !.paradero_fin_viaje = Null]

RowNoVehTimeNoStop == [RowNoVehTime EXCEPT !.paradero_inicio_viaje = Null]

RowBadRuta == [RowFinal EXCEPT !.distancia_ruta = S(<<"a", "b", "c">>)]

RowZeroEucl == [RowOk EXCEPT !.distancia_eucl = N(0)]

RowNoLegs ==
    [RowOk EXCEPT !.dveh_euc1 = Null, !.dveh_euc2 = Null]

RowPool ==
    {RowOk, RowFinal, RowNoVehTime, RowNegTotal, RowNoStop, RowNoVehTimeNoStop,
     RowBadRuta, RowZeroEucl, RowNoLegs}

MaxRows == 3

RowSeqs == UNION {[1..n -> RowPool] : n \in 0..MaxRows}

NoResult == [none |-> TRUE]


(***************************************************************************)
(* Storage layout.  Directory names are texts; main converts them with     *)
(* int().                                                                  *)
(***************************************************************************)
\* int(text): [ok |-> TRUE, v |-> n], or [ok |-> FALSE] for ValueError
PyInt(s) ==
    IF IsDigits(s) THEN [ok |-> TRUE, v |-> DigitsValue(s)]
    ELSE IF Len(s) > 1 /\ s[1] \in {"-", "+"} /\ IsDigits(Tail(s))
         THEN [ok |-> TRUE,
               v  |-> IF s[1] = "-" THEN 0 - DigitsValue(Tail(s))
                      ELSE DigitsValue(Tail(s))]
    ELSE [ok |-> FALSE]

Y2024 == <<"2", "0", "2", "4">>

W1 == <<"1">>

W01 == <<"0", "1">>

W2 == <<"2">>

WX == <<"x">>

\* A week directory iso_year=<year>/iso_week=<week>; data: it holds data-0.parquet
Dir(y, w, d) == [year |-> y, week |-> w, data |-> d]

\* The input layouts the runs start from.
InputListings ==
    { {},
      {Dir(Y2024, W1, TRUE), Dir(Y2024, W2, TRUE)},
      {Dir(Y2024, W1, TRUE), Dir(Y2024, W01, TRUE)},
      {Dir(Y2024, W1, TRUE), Dir(Y2024, W2, FALSE)},
      {Dir(Y2024, W1, TRUE), Dir(Y2024, WX, TRUE)} }

\* Content of <INPUT_PATH>/iso_year=<y>/iso_week=<w>/data-0.parquet
InputFile(path) ==
    CASE path.week = W1  -> Frame(<<RowOk, RowNoVehTime>>)
      [] path.week = W01 -> Frame(<<RowFinal, RowNoStop, RowBadRuta>>)
      [] path.week = W2  -> Frame(<<RowFinal, RowZeroEucl, RowNoStop, RowNoVehTimeNoStop>>)
      [] OTHER           -> Frame(<<>>)

NoFile == [exists |-> FALSE]

\* A complete artifact, or what an interrupted upload leaves behind.
File(df) == [exists |-> TRUE, complete |-> TRUE, df |-> df]

PartialFile == [exists |-> TRUE, complete |-> FALSE]

\* f"{OUTPUT_PATH}/iso_year={year}/iso_week={week}/data-0.parquet"
OutputKey(p) == <<p.year, p.week>>

OutputKeys == {<<2024, 1>>, <<2024, 2>>}

EmptyOutput == [k \in OutputKeys |-> NoFile]

(***************************************************************************)
(* Configuration                                                           *)
(***************************************************************************)
NUM_WORKERS == 1

MaxWorkers == 2

MaxRuns == 2

Configs ==
    [NUM_WORKERS : NUM_WORKERS..MaxWorkers, FORCE_REPROCESS : BOOLEAN, VERBOSE : BOOLEAN]

(***************************************************************************)
(* main: discovery                                                         *)
(***************************************************************************)
\* lines 303-318: the descriptors of the week directories holding a data file
Descriptor(d) ==
    [year |-> PyInt(d.year).v, week |-> PyInt(d.week).v,
     path |-> [year |-> d.year, week |-> d.week]]

\* int() raises ValueError on a directory name (inside the try of line 302)
DiscoveryRaises(dirs) ==
    \E d \in dirs : ~PyInt(d.year).ok \/ ~PyInt(d.week).ok

DiscoverAllDirs(dirs) == {Descriptor(d) : d \in dirs}

\* lines 305-318: one descriptor per week directory whose data file exists
Discover(dirs) == {Descriptor(d) : d \in {e \in dirs : e.data}}

(***************************************************************************)
(* Futures and results                                                     *)
(***************************************************************************)
NoFrame == [none |-> TRUE]

NewFuture ==
    [st |-> "pending",        \* pending, probe, read, loaded, filter, write, done, raised
     gfs |-> FALSE,           \* the worker holds its storage handles (gfs, fs_arrow)
     existedAtCall |-> FALSE, \* the output artifact existed when the worker was called
     sawOutput |-> "none",    \* value of gfs.exists(output_file): none, exists, absent
     opened |-> FALSE,        \* the input file was opened
     wrote |-> FALSE,         \* makedirs / open(output_file, 'wb') was reached
     tabla |-> NoFrame,       \* the Arrow table read from the input file
     df |-> NoFrame, df_filtrado |-> NoFrame, stats |-> NoResult,
     resultado |-> NoResult,  \* the dictionary returned by procesar_particion
     exc |-> "none",          \* exception held by the future: none, worker, pool
     collected |-> FALSE]     \* main has taken it from as_completed

Running(f) == f.st \in {"probe", "read", "loaded", "filter", "write"}

Finished(f) == f.st \in {"done", "raised"}

\* What became of a partition: success, skipped, error, critical, or running
Outcome(f) ==
    IF f.st = "done" THEN f.resultado.status
    ELSE IF f.st = "raised" THEN "critical"
    ELSE "running"

ZeroStats ==
    [n_inicial |-> 0, n_filtrados_tiempo |-> 0, n_filtrados_paraderos |-> 0,
     n_filtrados_dist |-> 0, n_final |-> 0, particiones_procesadas |-> 0,
     particiones_skipped |-> 0, particiones_fallidas |-> 0]

NoCode == 0 - 1

NoPrev == [valid |-> FALSE]


(***************************************************************************)
(* procesar_particion: one worker process per descriptor                   *)
(***************************************************************************)
Put(p, f) == futures' = [futures EXCEPT ![p] = f]

Return(f, resultado) ==
    [f EXCEPT !.st = "done", !.resultado = resultado,
              !.tabla = NoFrame, !.df = NoFrame, !.df_filtrado = NoFrame]

ErrorResult(p, msg) ==
    [status |-> "error", year |-> p.year, week |-> p.week, error |-> msg]

SkippedResult(p) == [status |-> "skipped", year |-> p.year, week |-> p.week]

SuccessResult(p, stats) ==
    [status |-> "success", year |-> p.year, week |-> p.week, stats |-> stats]

WorkerUnchanged ==
    UNCHANGED <<cfg, inputDirs, mainPc, particiones, poolBroken, stats_globales,
                exitCode, run, mainErr, prev, other, fIn, fOut>>

\* The pool hands a pending call to a free worker process.
CanStart(p) ==
    /\ mainPc = "collect"
    /\ ~poolBroken
    /\ futures[p].st = "pending"
    /\ Cardinality({q \in particiones : Running(futures[q])}) < cfg.NUM_WORKERS

\* lines 161-169: credentials and handles acquired
WorkerStart(p) ==
    /\ CanStart(p)
    /\ Put(p, [futures[p] EXCEPT !.st = "probe", !.gfs = TRUE,
                                 !.existedAtCall = output[OutputKey(p)].exists])
    /\ UNCHANGED <<output, writes>>
    /\ WorkerUnchanged

WorkerAuthFailPropagates(p) ==
    /\ CanStart(p)
    /\ Put(p, [futures[p] EXCEPT !.st = "raised", !.exc = "worker",
                                 !.existedAtCall = output[OutputKey(p)].exists])
    /\ UNCHANGED <<output, writes>>
    /\ WorkerUnchanged

\* lines 170-176: acquiring credentials raises
WorkerAuthFail(p) ==
    /\ CanStart(p)
    /\ Put(p, Return([futures[p] EXCEPT
                         !.existedAtCall = output[OutputKey(p)].exists],
                     ErrorResult(p, "auth")))
    /\ UNCHANGED <<output, writes>>
    /\ WorkerUnchanged

ShouldSkipIgnoringOutput(exists, force) == FALSE

ShouldSkipOnlyForced(exists, force) == exists /\ force

ShouldSkipEvenForced(exists, force) == exists

\* line 182: gfs.exists(output_file) and not force_reprocess
ShouldSkip(exists, force) == exists /\ ~force

\* lines 179-191: the existence probe answers
WorkerProbe(p) ==
    LET f      == futures[p]
        exists == output[OutputKey(p)].exists
        g      == [f EXCEPT !.sawOutput = IF exists THEN "exists" ELSE "absent"]
    IN  /\ f.st = "probe"
        /\ IF ShouldSkip(exists, cfg.FORCE_REPROCESS)
           THEN Put(p, Return(g, SkippedResult(p)))
           ELSE Put(p, [g EXCEPT !.st = "read"])
        /\ UNCHANGED <<output, writes>>
        /\ WorkerUnchanged

\* line 182: gfs.exists raises; no try encloses it, the call ends with the exception
WorkerProbeRaises(p) ==
    /\ futures[p].st = "probe"
    /\ Put(p, [futures[p] EXCEPT !.st = "raised", !.exc = "worker"])
    /\ UNCHANGED <<output, writes>>
    /\ WorkerUnchanged

\* lines 198-199: the input file is read into the Arrow table
WorkerRead(p) ==
    /\ futures[p].st = "read"
    /\ Put(p, [futures[p] EXCEPT !.st = "loaded", !.opened = TRUE,
                                 !.tabla = InputFile(p.path)])
    /\ UNCHANGED <<output, writes>>
    /\ WorkerUnchanged

\* lines 200-209: df = pl.from_arrow(tabla), then the Arrow table released
WorkerConvert(p) ==
    /\ futures[p].st = "loaded"
    /\ Put(p, [futures[p] EXCEPT !.st = "filter", !.df = futures[p].tabla,
                                 !.tabla = NoFrame])
    /\ UNCHANGED <<output, writes>>
    /\ WorkerUnchanged

\* lines 198-200 raise, caught at line 249
WorkerReadFail(p) ==
    /\ futures[p].st \in {"read", "loaded"}
    /\ Put(p, Return([futures[p] EXCEPT !.opened = TRUE], ErrorResult(p, "read")))
    /\ UNCHANGED <<output, writes>>
    /\ WorkerUnchanged

WorkerFilterKeepsDf(p) ==
    LET r == aplicar_filtros(futures[p].df)
    IN  /\ futures[p].st = "filter"
        /\ Put(p, [futures[p] EXCEPT !.st = "write",
                                     !.df_filtrado = r.df, !.stats = r.stats])
        /\ UNCHANGED <<output, writes>>
        /\ WorkerUnchanged

\* lines 215-223: aplicar_filtros, then df released
WorkerFilter(p) ==
    LET r == aplicar_filtros(futures[p].df)
    IN  /\ futures[p].st = "filter"
        /\ Put(p, [futures[p] EXCEPT !.st = "write", !.df = NoFrame,
                                     !.df_filtrado = r.df, !.stats = r.stats])
        /\ UNCHANGED <<output, writes>>
        /\ WorkerUnchanged

\* line 215 raises (a column is missing), caught at line 249
WorkerFilterFail(p) ==
    /\ futures[p].st = "filter"
    /\ Put(p, Return(futures[p], ErrorResult(p, "filter")))
    /\ UNCHANGED <<output, writes>>
    /\ WorkerUnchanged

\* lines 229-247: the artifact is written and the result returned
WorkerWrite(p) ==
    LET f == futures[p]
        k == OutputKey(p)
    IN  /\ f.st = "write"
        /\ output' = [output EXCEPT ![k] = File(f.df_filtrado)]
        /\ writes' = [writes EXCEPT ![k] = @ + 1]
        /\ Put(p, Return([f EXCEPT !.wrote = TRUE], SuccessResult(p, f.stats)))
        /\ WorkerUnchanged

\* lines 229-232 raise, caught at line 249.  The upload either never reached
\* the store, or closing the file on the way out stored what had been buffered.
WorkerWriteFail(p) ==
    LET f == futures[p]
        k == OutputKey(p)
    IN  /\ f.st = "write"
        /\ \/ UNCHANGED <<output, writes>>
           \/ /\ output' = [output EXCEPT ![k] = PartialFile]
              /\ writes' = [writes EXCEPT ![k] = @ + 1]
        /\ Put(p, Return([f EXCEPT !.wrote = TRUE], ErrorResult(p, "write")))
        /\ WorkerUnchanged

\* The worker process dies (out of memory).  The executor marks the pool
\* broken: every call that has not finished ends with BrokenProcessPool.
WorkerCrash(p) ==
    /\ Running(futures[p])
    /\ poolBroken' = TRUE
    /\ futures' = [q \in particiones |->
                     IF Finished(futures[q]) THEN futures[q]
                     ELSE [futures[q] EXCEPT !.st = "raised", !.exc = "pool",
                                             !.tabla = NoFrame, !.df = NoFrame,
                                             !.df_filtrado = NoFrame]]
    /\ UNCHANGED <<cfg, inputDirs, output, mainPc, particiones, stats_globales,
                   exitCode, run, writes, mainErr, prev, other, fIn, fOut>>


(***************************************************************************)
(* procesar_particion in a second execution of the script started on the   *)
(* same input and output roots while this one runs.  Its workers take the  *)
(* same steps on the shared storage; its own main is not followed.         *)
(***************************************************************************)
PutOther(p, f) == other' = [other EXCEPT ![p] = f]

OtherUnchanged ==
    UNCHANGED <<cfg, inputDirs, mainPc, particiones, futures, poolBroken,
                stats_globales, exitCode, run, mainErr, prev, fIn, fOut>>

\* lines 161-169
OtherStart(p) ==
    /\ other[p].st = "pending"
    /\ Cardinality({q \in DOMAIN other : Running(other[q])}) < cfg.NUM_WORKERS
    /\ PutOther(p, [other[p] EXCEPT !.st = "probe", !.gfs = TRUE,
                                    !.existedAtCall = output[OutputKey(p)].exists])
    /\ UNCHANGED <<output, writes>>
    /\ OtherUnchanged

\* lines 179-191
OtherProbe(p) ==
    LET f      == other[p]
        exists == output[OutputKey(p)].exists
        g      == [f EXCEPT !.sawOutput = IF exists THEN "exists" ELSE "absent"]
    IN  /\ f.st = "probe"
        /\ IF ShouldSkip(exists, cfg.FORCE_REPROCESS)
           THEN PutOther(p, Return(g, SkippedResult(p)))
           ELSE PutOther(p, [g EXCEPT !.st = "read"])
        /\ UNCHANGED <<output, writes>>
        /\ OtherUnchanged

\* lines 198-209
OtherRead(p) ==
    /\ other[p].st = "read"
    /\ PutOther(p, [other[p] EXCEPT !.st = "filter", !.opened = TRUE,
                                    !.df = InputFile(p.path)])
    /\ UNCHANGED <<output, writes>>
    /\ OtherUnchanged

\* lines 215-223
OtherFilter(p) ==
    LET r == aplicar_filtros(other[p].df)
    IN  /\ other[p].st = "filter"
        /\ PutOther(p, [other[p] EXCEPT !.st = "write", !.df = NoFrame,
                                        !.df_filtrado = r.df, !.stats = r.stats])
        /\ UNCHANGED <<output, writes>>
        /\ OtherUnchanged

\* lines 229-247
OtherWrite(p) ==
    LET f == other[p]
        k == OutputKey(p)
    IN  /\ f.st = "write"
        /\ output' = [output EXCEPT ![k] = File(f.df_filtrado)]
        /\ writes' = [writes EXCEPT ![k] = @ + 1]
        /\ PutOther(p, Return([f EXCEPT !.wrote = TRUE], SuccessResult(p, f.stats)))
        /\ OtherUnchanged

\* lines 170-176 and 249-267: a step raises before anything reached the store
OtherError(p) ==
    /\ other[p].st \in {"pending", "read", "filter", "write"}
    /\ PutOther(p, Return(other[p], ErrorResult(p, "other")))
    /\ UNCHANGED <<output, writes>>
    /\ OtherUnchanged


(***************************************************************************)
(* main                                                                    *)
(***************************************************************************)
AfterAuthErrorContinue == "discover"

\* line 298: return 1
AfterAuthError == "returned"

\* line 325: return 1
AfterDiscoveryError == "returned"

MainUnchanged ==
    UNCHANGED <<cfg, inputDirs, output, run, writes, prev, other, fIn, fOut>>

\* lines 292-295
MainAuth ==
    /\ mainPc = "auth"
    /\ mainPc' = "discover"
    /\ UNCHANGED <<particiones, futures, poolBroken, stats_globales, exitCode, mainErr>>
    /\ MainUnchanged

\* lines 296-298
MainAuthFail ==
    /\ mainPc = "auth"
    /\ mainErr' = "auth"
    /\ exitCode' = 1
    /\ mainPc' = AfterAuthError
    /\ UNCHANGED <<particiones, futures, poolBroken, stats_globales>>
    /\ MainUnchanged

\* lines 302-355: the partitions are listed; none found returns 0 (line 329),
\* otherwise every descriptor is submitted to the pool
MainDiscover ==
    /\ mainPc = "discover"
    /\ ~DiscoveryRaises(inputDirs)
    /\ particiones' = Discover(inputDirs)
    /\ futures' = [p \in particiones' |-> NewFuture]
    /\ stats_globales' = ZeroStats
    /\ IF particiones' = {}
       THEN mainPc' = "returned" /\ exitCode' = 0
       ELSE mainPc' = "collect" /\ exitCode' = exitCode
    /\ UNCHANGED <<poolBroken, mainErr>>
    /\ MainUnchanged

\* lines 323-325: gfs.ls / gfs.exists or int() raises
MainDiscoverFail ==
    /\ mainPc = "discover"
    /\ mainErr' = "discovery"
    /\ exitCode' = 1
    /\ mainPc' = AfterDiscoveryError
    /\ UNCHANGED <<particiones, futures, poolBroken, stats_globales>>
    /\ MainUnchanged

AddStats(sg, stats) ==
    [sg EXCEPT !.particiones_procesadas = @ + 1,
               !.n_inicial = @ + stats.n_inicial,
               !.n_filtrados_tiempo = @ + stats.n_filtrados_tiempo,
               !.n_filtrados_paraderos = @ + stats.n_filtrados_paraderos,
               !.n_filtrados_dist = @ + stats.n_filtrados_dist,
               !.n_final = @ + stats.n_final]

AggregateDropsFinal(sg, resultado) ==
    CASE resultado.status = "success" ->
            [AddStats(sg, resultado.stats) EXCEPT !.n_final = sg.n_final]
      [] resultado.status = "skipped" ->
            [sg EXCEPT !.particiones_skipped = @ + 1]
      [] resultado.status = "error" ->
            [sg EXCEPT !.particiones_fallidas = @ + 1]
      [] OTHER -> sg

AggregateLastWins(sg, resultado) ==
    CASE resultado.status = "success" ->
            [AddStats(sg, resultado.stats) EXCEPT !.n_final = resultado.stats.n_final]
      [] resultado.status = "skipped" ->
            [sg EXCEPT !.particiones_skipped = @ + 1]
      [] resultado.status = "error" ->
            [sg EXCEPT !.particiones_fallidas = @ + 1]
      [] OTHER -> sg

\* lines 367-383 (VERBOSE)
AggregateVerbose(sg, resultado) ==
    CASE resultado.status = "success" -> AddStats(sg, resultado.stats)
      [] resultado.status = "skipped" ->
            [sg EXCEPT !.particiones_skipped = @ + 1]
      [] resultado.status = "error" ->
            [sg EXCEPT !.particiones_fallidas = @ + 1]
      [] OTHER -> sg

\* lines 398-412 (tqdm)
AggregateQuiet(sg, resultado) ==
    CASE resultado.status = "success" -> AddStats(sg, resultado.stats)
      [] resultado.status = "skipped" ->
            [sg EXCEPT !.particiones_skipped = @ + 1]
      [] resultado.status = "error" ->
            [sg EXCEPT !.particiones_fallidas = @ + 1]
      [] OTHER -> sg

CriticalIgnored(sg) == sg

\* lines 385-387 (VERBOSE): future.result() raised
CriticalVerbose(sg) == [sg EXCEPT !.particiones_fallidas = @ + 1]

\* lines 414-416 (tqdm): future.result() raised
CriticalQuiet(sg) == [sg EXCEPT !.particiones_fallidas = @ + 1]

CollectUnchanged ==
    /\ UNCHANGED <<mainPc, particiones, poolBroken, exitCode, mainErr>>
    /\ MainUnchanged

\* lines 363-392: one completed future taken from as_completed
CollectVerbose(p) ==
    /\ mainPc = "collect"
    /\ cfg.VERBOSE
    /\ Finished(futures[p])
    /\ ~futures[p].collected
    /\ stats_globales' = IF futures[p].st = "done"
                         THEN AggregateVerbose(stats_globales, futures[p].resultado)
                         ELSE CriticalVerbose(stats_globales)
    /\ Put(p, [futures[p] EXCEPT !.collected = TRUE])
    /\ CollectUnchanged

\* lines 394-421
CollectQuiet(p) ==
    /\ mainPc = "collect"
    /\ ~cfg.VERBOSE
    /\ Finished(futures[p])
    /\ ~futures[p].collected
    /\ stats_globales' = IF futures[p].st = "done"
                         THEN AggregateQuiet(stats_globales, futures[p].resultado)
                         ELSE CriticalQuiet(stats_globales)
    /\ Put(p, [futures[p] EXCEPT !.collected = TRUE])
    /\ CollectUnchanged

ExitCodeCountingSkips(sg) ==
    IF sg.particiones_fallidas = 0 /\ sg.particiones_skipped = 0 THEN 0 ELSE 1

\* line 459
ExitCode(sg) == IF sg.particiones_fallidas = 0 THEN 0 ELSE 1

MainFinishOnTimeout ==
    /\ mainPc = "collect"
    /\ mainPc' = "returned"
    /\ exitCode' = ExitCode(stats_globales)
    /\ UNCHANGED <<particiones, futures, poolBroken, stats_globales, mainErr>>
    /\ MainUnchanged

\* lines 423-459: as_completed is exhausted, the summary printed, the status returned
MainFinish ==
    /\ mainPc = "collect"
    /\ \A p \in particiones : futures[p].collected
    /\ mainPc' = "returned"
    /\ exitCode' = ExitCode(stats_globales)
    /\ UNCHANGED <<particiones, futures, poolBroken, stats_globales, mainErr>>
    /\ MainUnchanged

\* The operator runs the script again on the same input and configuration.
NextRun ==
    /\ mainPc = "returned"
    /\ run < MaxRuns
    /\ run' = run + 1
    /\ prev' = [valid |-> TRUE, exitCode |-> exitCode,
                status |-> [p \in particiones |-> Outcome(futures[p])],
                output |-> output]
    /\ mainPc' = "auth"
    /\ particiones' = {}
    /\ futures' = [p \in {} |-> NewFuture]
    /\ poolBroken' = FALSE
    /\ stats_globales' = ZeroStats
    /\ exitCode' = NoCode
    /\ mainErr' = "none"
    /\ writes' = [k \in OutputKeys |-> 0]
    /\ UNCHANGED <<cfg, inputDirs, output, other, fIn, fOut>>

(***************************************************************************)
(* Specifications                                                          *)
(***************************************************************************)
DefaultConfig == [NUM_WORKERS |-> NUM_WORKERS, FORCE_REPROCESS |-> FALSE, VERBOSE |-> TRUE]

BatchIdle ==
    /\ output = EmptyOutput
    /\ particiones = {}
    /\ futures = [p \in {} |-> NewFuture]
    /\ poolBroken = FALSE
    /\ stats_globales = ZeroStats
    /\ exitCode = NoCode
    /\ run = 1
    /\ writes = [k \in OutputKeys |-> 0]
    /\ mainErr = "none"
    /\ prev = NoPrev
    /\ other = [p \in {} |-> NewFuture]

\* The script is started on an input layout, its output root still empty.
Init ==
    /\ cfg \in Configs
    /\ inputDirs \in InputListings
    /\ mainPc = "auth"
    /\ BatchIdle
    /\ fIn = Frame(<<>>)
    /\ fOut = NoResult

Next ==
    \/ MainAuth \/ MainAuthFail \/ MainDiscover \/ MainDiscoverFail
    \/ \E p \in particiones : WorkerStart(p)
    \/ \E p \in particiones : WorkerAuthFail(p)
    \/ \E p \in particiones : WorkerProbe(p)
    \/ \E p \in particiones : WorkerProbeRaises(p)
    \/ \E p \in particiones : WorkerRead(p)
    \/ \E p \in particiones : WorkerConvert(p)
    \/ \E p \in particiones : WorkerReadFail(p)
    \/ \E p \in particiones : WorkerFilter(p)
    \/ \E p \in particiones : WorkerFilterFail(p)
    \/ \E p \in particiones : WorkerWrite(p)
    \/ \E p \in particiones : WorkerWriteFail(p)
    \/ \E p \in particiones : WorkerCrash(p)
    \/ \E p \in particiones : CollectVerbose(p)
    \/ \E p \in particiones : CollectQuiet(p)
    \/ MainFinish
    \/ NextRun

Spec == Init /\ [][Next]_vars

\* One execution of main, not repeated.
RunNext ==
    \/ MainAuth \/ MainAuthFail \/ MainDiscover \/ MainDiscoverFail
    \/ \E p \in particiones : WorkerStart(p)
    \/ \E p \in particiones : WorkerAuthFail(p)
    \/ \E p \in particiones : WorkerProbe(p)
    \/ \E p \in particiones : WorkerProbeRaises(p)
    \/ \E p \in particiones : WorkerRead(p)
    \/ \E p \in particiones : WorkerConvert(p)
    \/ \E p \in particiones : WorkerReadFail(p)
    \/ \E p \in particiones : WorkerFilter(p)
    \/ \E p \in particiones : WorkerFilterFail(p)
    \/ \E p \in particiones : WorkerWrite(p)
    \/ \E p \in particiones : WorkerWriteFail(p)
    \/ \E p \in particiones : WorkerCrash(p)
    \/ \E p \in particiones : CollectVerbose(p)
    \/ \E p \in particiones : CollectQuiet(p)
    \/ MainFinish

\* The steps of main's own process
MainStep ==
    \/ MainAuth \/ MainAuthFail \/ MainDiscover \/ MainDiscoverFail
    \/ \E p \in particiones : CollectVerbose(p)
    \/ \E p \in particiones : CollectQuiet(p)
    \/ MainFinish

\* Every descriptor a layout can give
AllDescriptors == UNION {Discover(l) : l \in {m \in InputListings : ~DiscoveryRaises(m)}}

\* Every submitted call eventually ends, by a result or by an exception
WorkersEnd ==
    \A p \in AllDescriptors : []<>(p \in DOMAIN futures => Finished(futures[p]))

\* One execution in which main's process keeps running and every worker ends.
LiveSpec == Init /\ [][RunNext]_vars /\ WF_vars(MainStep) /\ WorkersEnd

\* The descriptors the second execution finds on the layout
OtherParticiones(dirs) == IF DiscoveryRaises(dirs) THEN {} ELSE Discover(dirs)

\* Two executions started together on the same layout, the output root empty.
\* Of the second one, the worker of one (year, week) is followed.
RaceInit ==
    /\ cfg \in Configs
    /\ inputDirs \in InputListings
    /\ mainPc = "auth"
    /\ output = EmptyOutput
    /\ particiones = {}
    /\ futures = [p \in {} |-> NewFuture]
    /\ poolBroken = FALSE
    /\ stats_globales = ZeroStats
    /\ exitCode = NoCode
    /\ run = 1
    /\ writes = [k \in OutputKeys |-> 0]
    /\ mainErr = "none"
    /\ prev = NoPrev
    /\ \E D \in (IF OtherParticiones(inputDirs) = {} THEN {{}}
                 ELSE {{p} : p \in OtherParticiones(inputDirs)}) :
            other = [p \in D |-> NewFuture]
    /\ fIn = Frame(<<>>)
    /\ fOut = NoResult

RaceNext ==
    \/ RunNext
    \/ \E p \in DOMAIN other : OtherStart(p)
    \/ \E p \in DOMAIN other : OtherProbe(p)
    \/ \E p \in DOMAIN other : OtherRead(p)
    \/ \E p \in DOMAIN other : OtherFilter(p)
    \/ \E p \in DOMAIN other : OtherWrite(p)
    \/ \E p \in DOMAIN other : OtherError(p)

RaceSpec == RaceInit /\ [][RaceNext]_vars

\* aplicar_filtros called on one frame.
FilterInit ==
    /\ cfg = DefaultConfig
    /\ inputDirs = {}
    /\ mainPc = "idle"
    /\ BatchIdle
    /\ fIn \in {Frame(rows) : rows \in RowSeqs}
    /\ fOut = NoResult

\* The result of the call together with the locals the statistics come from
FilterObserved(l) ==
    [ret |-> FiltrosReturn(l),
     n_despues_tiempo |-> l.n_despues_tiempo,
     n_despues_paraderos |-> l.n_despues_paraderos,
     df_tiempo |-> l.df_tiempo,
     df_paraderos |-> l.df_paraderos,
     df_distancias |-> l.df_distancias,
     keep_dist |-> l.keep_dist]

FilterCall ==
    /\ fOut = NoResult
    /\ fOut' = FilterObserved(FiltrosLocals(fIn))
    /\ UNCHANGED fIn
    /\ UNCHANGED batchVars

FilterNext == FilterCall

FilterSpec == FilterInit /\ [][FilterNext]_vars


(***************************************************************************)
(* Properties                                                              *)
(***************************************************************************)
Force == cfg.FORCE_REPROCESS

Failed(f) == Outcome(f) \in {"error", "critical"}

Collected == {p \in particiones : futures[p].collected}

OutputAtRunStart == IF prev.valid THEN prev.output ELSE EmptyOutput

RECURSIVE SumStat(_, _)
SumStat(ps, field) ==
    IF ps = {} THEN 0
    ELSE LET p == CHOOSE x \in ps : TRUE
         IN  futures[p].resultado.stats[field] + SumStat(ps \ {p}, field)

\* C1 as stated: a worker called for a partition whose output artifact already
\* exists, without forced reprocessing, returns 'skipped', never having opened
\* the input nor written anything.
C1_ExistingOutputReturnsSkipped ==
    \A p \in particiones :
        (futures[p].existedAtCall /\ ~Force /\ futures[p].st = "done")
            => /\ futures[p].resultado.status = "skipped"
               /\ ~futures[p].opened
               /\ ~futures[p].wrote

\* C1 amended: such a worker never opens the input and never writes; it returns
\* 'skipped', except that it returns 'error' when its own acquisition of
\* credentials fails (the existence check is then never made).
C1_ExistingOutputNeverReadNorWritten ==
    \A p \in particiones :
        (futures[p].existedAtCall /\ ~Force)
            => /\ ~futures[p].opened
               /\ ~futures[p].wrote
               /\ futures[p].st \notin {"read", "loaded", "filter", "write"}
               /\ futures[p].st = "done"
                    => \/ /\ futures[p].resultado.status = "skipped"
                          /\ futures[p].sawOutput = "exists"
                       \/ /\ futures[p].resultado.status = "error"
                          /\ futures[p].resultado.error = "auth"
                          /\ futures[p].sawOutput = "none"

C1_Witness ==
    \E p \in particiones :
        /\ futures[p].existedAtCall /\ ~Force
        /\ futures[p].st = "done"
        /\ futures[p].resultado.status = "skipped"

\* C2 as stated: main returns 1 if and only if at least one partition ended in
\* an error outcome; otherwise 0.
C2_FailureIffPartitionError ==
    mainPc = "returned"
        => (exitCode = 1 <=> \E p \in particiones : Failed(futures[p]))

\* C2 amended: main returns 1 if and only if its own startup failed
\* (credentials or enumeration) or at least one partition ended in an error
\* outcome; otherwise it returns 0, skipped partitions notwithstanding.
C2_FailureIffStartupOrPartitionError ==
    mainPc = "returned"
        => /\ exitCode \in {0, 1}
           /\ exitCode = 1 <=> \/ mainErr # "none"
                               \/ \E p \in particiones : Failed(futures[p])

C2_Witness ==
    /\ mainPc = "returned"
    /\ exitCode = 0
    /\ particiones # {}
    /\ \A p \in particiones : Outcome(futures[p]) = "skipped"

\* C3: whatever raises in steps 1-6 of the worker, procesar_particion returns
\* an 'error' result; no exception ever leaves it.
C3_WorkerNeverPropagates ==
    \A p \in particiones : futures[p].exc # "worker"

\* C4 as stated: in a run that follows a run over the same partitions, without
\* forced reprocessing, the artifacts stay as the first run left them and
\* every partition ends 'skipped' (none processed).
C4_SecondRunSkipsAll ==
    (/\ prev.valid /\ ~Force /\ mainPc = "returned"
     /\ particiones # {} /\ DOMAIN prev.status = particiones)
        => /\ output = prev.output
           /\ \A p \in particiones : Outcome(futures[p]) = "skipped"
           /\ stats_globales.particiones_skipped = Cardinality(particiones)
           /\ stats_globales.particiones_procesadas = 0

\* C4 amended: when the first run reported no failure (returned 0), the second
\* run leaves every artifact as it was, opens no input, processes nothing, and
\* every partition ends 'skipped' unless its worker failed before the
\* existence check answered (then it is counted as failed).
C4_SecondRunAfterCleanRun ==
    (prev.valid /\ prev.exitCode = 0 /\ ~Force)
        => /\ output = prev.output
           /\ stats_globales.particiones_procesadas = 0
           /\ \A p \in particiones :
                /\ ~futures[p].opened /\ ~futures[p].wrote
                /\ Finished(futures[p])
                     => \/ Outcome(futures[p]) = "skipped"
                        \/ Failed(futures[p]) /\ futures[p].sawOutput = "none"
           /\ (mainPc = "returned" /\ mainErr = "none")
                => stats_globales.particiones_skipped
                     + stats_globales.particiones_fallidas = Cardinality(particiones)

C4_Witness ==
    /\ prev.valid /\ prev.exitCode = 0 /\ ~Force
    /\ \E p \in DOMAIN prev.status : prev.status[p] = "success"
    /\ mainPc = "returned"
    /\ stats_globales.particiones_skipped = Cardinality(particiones)
    /\ Cardinality(particiones) = 2

\* C5: without forced reprocessing, each output path is written at most once
\* in one execution of main.
C5_OutputWrittenAtMostOnce ==
    ~Force => \A k \in OutputKeys : writes[k] <= 1

\* C6: across two successive runs without forced reprocessing, a partition
\* that succeeded in the first is skipped in the second (once its worker
\* reaches the existence check), and one that ended in error in the first is
\* not skipped in the second.
C6_FailedPartitionsRetried ==
    (prev.valid /\ ~Force)
        => \A p \in particiones \cap DOMAIN prev.status :
              futures[p].st = "done"
                => /\ (prev.status[p] = "success" /\ futures[p].sawOutput # "none")
                        => futures[p].resultado.status = "skipped"
                   /\ prev.status[p] \in {"error", "critical"}
                        => futures[p].resultado.status # "skipped"

\* C7: the numeric totals of stats_globales are the sums over the collected
\* 'success' results only; 'skipped' and 'error' results add one to their own
\* counter and nothing to the totals.
C7_TotalsSumSuccessOnly ==
    LET ok == {p \in Collected : Outcome(futures[p]) = "success"}
    IN  (mainErr = "none" /\ mainPc \in {"collect", "returned"})
          => /\ \A field \in {"n_inicial", "n_filtrados_tiempo",
                              "n_filtrados_paraderos", "n_filtrados_dist", "n_final"} :
                   stats_globales[field] = SumStat(ok, field)
             /\ stats_globales.particiones_procesadas = Cardinality(ok)
             /\ stats_globales.particiones_skipped =
                   Cardinality({p \in Collected : Outcome(futures[p]) = "skipped"})
             /\ stats_globales.particiones_fallidas >=
                   Cardinality({p \in Collected : Outcome(futures[p]) = "error"})

C7_Witness ==
    /\ mainPc = "returned"
    /\ stats_globales.particiones_procesadas = 2
    /\ stats_globales.n_inicial = 6
    /\ stats_globales.n_filtrados_tiempo = 2
    /\ stats_globales.n_filtrados_paraderos = 1
    /\ stats_globales.n_filtrados_dist = 1
    /\ stats_globales.n_final = 2

\* C8: a future whose result() raises is counted once in particiones_fallidas;
\* main goes on, collects every other future and counts each by its own outcome.
C8_CriticalCountedBatchContinues ==
    (mainErr = "none" /\ mainPc \in {"collect", "returned"})
        => /\ stats_globales.particiones_fallidas =
                Cardinality({p \in Collected : Failed(futures[p])})
           /\ mainPc = "returned"
                => /\ \A p \in particiones : futures[p].collected
                   /\ stats_globales.particiones_procesadas =
                        Cardinality({p \in particiones : Outcome(futures[p]) = "success"})
                   /\ stats_globales.particiones_skipped =
                        Cardinality({p \in particiones : Outcome(futures[p]) = "skipped"})

C8_Witness ==
    /\ mainPc = "returned"
    /\ \E p, q \in particiones :
          /\ futures[p].exc = "worker"
          /\ Outcome(futures[q]) = "success"
    /\ stats_globales.particiones_fallidas = 1
    /\ stats_globales.particiones_procesadas = 1

\* C9: when main's own credentials or the enumeration of partitions fail, main
\* returns 1 at once: nothing is dispatched, read or written.
C9_StartupFailureAborts ==
    mainErr # "none"
        => /\ mainPc = "returned"
           /\ exitCode = 1
           /\ particiones = {}
           /\ DOMAIN futures = {}
           /\ \A k \in OutputKeys : writes[k] = 0
           /\ output = OutputAtRunStart

C9_Witness ==
    /\ mainErr = "auth"
    /\ mainPc = "returned"
    /\ \E d \in inputDirs : d.data

\* C10: the counts of aplicar_filtros never increase from stage to stage,
\* n_final <= n_despues_paraderos <= n_despues_tiempo <= n_inicial, and no
\* stage delta is negative.
C10_CountsNeverIncrease ==
    fOut # NoResult
        => /\ fOut.ret.stats.n_final <= fOut.n_despues_paraderos
           /\ fOut.n_despues_paraderos <= fOut.n_despues_tiempo
           /\ fOut.n_despues_tiempo <= fOut.ret.stats.n_inicial
           /\ fOut.ret.stats.n_inicial = Len(fIn.rows)
           /\ fOut.ret.stats.n_final = Len(fOut.ret.df.rows)
           /\ fOut.ret.stats.n_filtrados_tiempo >= 0
           /\ fOut.ret.stats.n_filtrados_paraderos >= 0
           /\ fOut.ret.stats.n_filtrados_dist >= 0

C10_Witness ==
    /\ fOut # NoResult
    /\ fOut.ret.stats.n_filtrados_tiempo > 0
    /\ fOut.ret.stats.n_filtrados_paraderos > 0
    /\ fOut.ret.stats.n_filtrados_dist > 0


(***************************************************************************)
(* Properties of aplicar_filtros, stated on the input rows                 *)
(***************************************************************************)
RECURSIVE NullSafeSum(_, _)
NullSafeSum(r, cols) ==
    IF Len(cols) = 0 THEN 0
    ELSE (IF r[Head(cols)] = Null THEN 0 ELSE r[Head(cols)].v)
         + NullSafeSum(r, Tail(cols))

VehicleTimeSum(r) == NullSafeSum(r, <<"tv1", "tv2", "tv3", "tv4">>)

TotalTimeSum(r) ==
    NullSafeSum(r, <<"te0", "tv1", "tc1", "te1", "tv2", "tc2",
                     "te2", "tv3", "tc3", "te3", "tv4">>)

LegDistanceSum(r) ==
    NullSafeSum(r, <<"dveh_euc1", "dveh_euc2", "dveh_euc3", "dveh_euc4">>)

TimesPositive(r) == VehicleTimeSum(r) > 0 /\ TotalTimeSum(r) > 0

\* The row restricted to the columns of the input
InputPart(r) == [c \in InputColumns |-> r[c]]

InputParts(rows) == [i \in 1..Len(rows) |-> InputPart(rows[i])]

Called == fOut # NoResult

\* C11: pct_retenido is n_final / n_inicial * 100, within [0, 100], for a
\* non-empty partition; for an empty one it is exactly 0, no record comes out
\* and no division by zero takes place.
C11_PctRetenidoBounded ==
    Called
        => LET st  == fOut.ret.stats
               pct == st.pct_retenido
           IN  /\ pct[2] > 0
               /\ st.n_inicial > 0
                    => /\ pct[1] * st.n_inicial = st.n_final * 100 * pct[2]
                       /\ 0 <= pct[1] /\ pct[1] <= 100 * pct[2]
               /\ st.n_inicial = 0
                    => /\ pct[1] = 0
                       /\ st.n_final = 0
                       /\ fOut.ret.df.rows = <<>>

C11_Witness ==
    /\ Called
    /\ fOut.ret.stats.n_inicial = 3
    /\ fOut.ret.stats.pct_retenido = <<100, 3>>

\* C12: stage 1 keeps a record exactly when the null-safe sums tv1..tv4 and
\* te0+tv1+tc1+te1+tv2+tc2+te2+tv3+tc3+te3+tv4 are both strictly positive;
\* the others are dropped and counted in n_filtrados_tiempo.
C12_TimeStageKeepsPositiveSums ==
    Called
        => /\ InputParts(fOut.df_tiempo.rows) = SelectSeq(fIn.rows, TimesPositive)
           /\ fOut.ret.stats.n_filtrados_tiempo =
                Len(fIn.rows) - Len(SelectSeq(fIn.rows, TimesPositive))
           /\ \A i \in 1..Len(fOut.df_tiempo.rows) :
                /\ fOut.df_tiempo.rows[i].t_vehiculo_total_seg
                     = N(VehicleTimeSum(fOut.df_tiempo.rows[i]))
                /\ fOut.df_tiempo.rows[i].t_total_calculado_seg
                     = N(TotalTimeSum(fOut.df_tiempo.rows[i]))

C12_Witness ==
    /\ Called
    /\ fIn.rows = <<RowOk, RowNoVehTime, RowNegTotal>>
    /\ InputParts(fOut.df_tiempo.rows) = <<RowOk>>
    /\ fOut.ret.stats.n_filtrados_tiempo = 2

\* The rows that reach stage 3, before and after imputation and parsing
Stage3 == DOMAIN fOut.df_paraderos.rows

DistancesValid(r) ==
    Positive(CastFloat(r.distancia_ruta)) /\ Positive(CastFloat(r.distancia_eucl))

\* Row i of stage 3 is a record of the returned frame
InOutput(i) ==
    \E j \in DOMAIN fOut.ret.df.rows :
        fOut.ret.df.rows[j] =
            [c \in fOut.ret.df.columns |-> fOut.df_distancias.rows[i][c]]

\* C13 as stated: a record that reaches stage 3 with dveh_eucfinal null and
\* valid positive distancia_ruta and distancia_eucl is retained.
C13_NullFinalRetainedWhenDistancesValid ==
    Called
        => \A i \in Stage3 :
             (IsNull(fOut.df_paraderos.rows[i].dveh_eucfinal)
                /\ DistancesValid(fOut.df_paraderos.rows[i]))
                => InOutput(i)

\* C13 amended: a null dveh_eucfinal becomes the null-safe sum of the four
\* legs and a non-null one is unchanged; the imputed record is retained when
\* both distances are valid positive numbers and the imputed sum is strictly
\* positive, and dropped when the sum is not.
C13_ImputedFromLegSum ==
    Called
        => \A i \in Stage3 :
             LET r   == fOut.df_paraderos.rows[i]
                 imp == fOut.df_distancias.rows[i].dveh_eucfinal
             IN  /\ IsNull(r.dveh_eucfinal) => imp = N(LegDistanceSum(r))
                 /\ ~IsNull(r.dveh_eucfinal) => imp = r.dveh_eucfinal
                 /\ (IsNull(r.dveh_eucfinal) /\ DistancesValid(r))
                      => (InOutput(i) <=> LegDistanceSum(r) > 0)

C13_Witness ==
    /\ Called
    /\ fIn.rows = <<RowOk, RowFinal, RowNoLegs>>
    /\ Len(fOut.ret.df.rows) = 2
    /\ fOut.ret.df.rows[1].dveh_eucfinal = N(120)
    /\ fOut.ret.df.rows[2].dveh_eucfinal = N(80)

AllThreePositive(i) ==
    /\ Positive(CastFloat(fOut.df_paraderos.rows[i].distancia_ruta))
    /\ Positive(CastFloat(fOut.df_paraderos.rows[i].distancia_eucl))
    /\ Positive(fOut.df_distancias.rows[i].dveh_eucfinal)

\* C14: every returned record has a parsed route distance, a parsed euclidean
\* distance and a dveh_eucfinal that are non-null and strictly positive; a
\* record reaching stage 3 with one of them null, zero or negative is removed
\* and counted in n_filtrados_dist.
C14_OutputDistancesPositive ==
    Called
        => /\ \A j \in DOMAIN fOut.ret.df.rows :
                /\ Positive(CastFloat(fOut.ret.df.rows[j].distancia_ruta))
                /\ Positive(CastFloat(fOut.ret.df.rows[j].distancia_eucl))
                /\ Positive(fOut.ret.df.rows[j].dveh_eucfinal)
           /\ \A i \in Stage3 : ~AllThreePositive(i) => ~InOutput(i)
           /\ fOut.ret.stats.n_filtrados_dist
                = Cardinality({i \in Stage3 : ~AllThreePositive(i)})
           /\ fOut.ret.stats.n_final
                = Cardinality({i \in Stage3 : AllThreePositive(i)})

C14_Witness ==
    /\ Called
    /\ fIn.rows = <<RowNoLegs, RowZeroEucl, RowOk>>
    /\ fOut.ret.stats.n_filtrados_dist = 2
    /\ Len(fOut.ret.df.rows) = 1

Unparseable(x) == x.t = "str" /\ ~ParseNumber(x.s).ok

\* C15: a distancia_ruta that is no number does not stop aplicar_filtros; the
\* parsed value is null and the record is dropped in stage 3 whatever its
\* other fields are.
C15_UnparseableRouteDropped ==
    Called
        => /\ \A i \in Stage3 :
                Unparseable(fOut.df_paraderos.rows[i].distancia_ruta)
                    => /\ fOut.df_distancias.rows[i].distancia_ruta_float = Null
                       /\ ~fOut.keep_dist[i]
                       /\ ~InOutput(i)
           /\ \A j \in DOMAIN fOut.ret.df.rows :
                ~Unparseable(fOut.ret.df.rows[j].distancia_ruta)
           /\ fOut.ret.stats.n_final = Len(fOut.ret.df.rows)

C15_Witness ==
    /\ Called
    /\ fIn.rows = <<RowBadRuta, RowFinal>>
    /\ Len(fOut.df_paraderos.rows) = 2
    /\ fOut.keep_dist = <<FALSE, TRUE>>
    /\ fOut.ret.stats.n_filtrados_dist = 1

(***************************************************************************)
(* Properties of procesar_particion inside a batch                         *)
(***************************************************************************)
Submitted == DOMAIN futures

\* C17: a worker whose credential/storage acquisition fails returns 'error'
\* for its own partition without probing, reading or writing, and the other
\* partitions of the batch are still processed and reported.
C17_WorkerAuthFailureIsolated ==
    /\ \A p \in Submitted :
         (Finished(futures[p]) /\ ~futures[p].gfs /\ futures[p].exc # "pool")
            => /\ futures[p].st = "done"
               /\ futures[p].resultado.status = "error"
               /\ futures[p].resultado.year = p.year
               /\ futures[p].resultado.week = p.week
               /\ futures[p].sawOutput = "none"
               /\ ~futures[p].opened
               /\ ~futures[p].wrote
    /\ (mainPc = "returned" /\ mainErr = "none")
            => /\ \A p \in Submitted : Finished(futures[p]) /\ futures[p].collected
               /\ stats_globales.particiones_procesadas
                    = Cardinality({p \in Submitted : Outcome(futures[p]) = "success"})
               /\ stats_globales.particiones_skipped
                    = Cardinality({p \in Submitted : Outcome(futures[p]) = "skipped"})
               /\ stats_globales.particiones_fallidas
                    = Cardinality({p \in Submitted :
                                     Outcome(futures[p]) \in {"error", "critical"}})

C17_Witness ==
    /\ mainPc = "returned"
    /\ \E p, q \in Submitted :
         /\ Outcome(futures[p]) = "error"
         /\ ~futures[p].gfs
         /\ Outcome(futures[q]) = "success"
         /\ futures[q].wrote
    /\ stats_globales.particiones_fallidas = 1
    /\ stats_globales.particiones_procesadas = 1

\* A step replaces the artifact of key k only from a worker writing k, and a
\* successful write stores that worker's filtered frame.
WriteFrame ==
    /\ \A k \in OutputKeys :
         output'[k] # output[k]
            => \E p \in Submitted :
                 /\ OutputKey(p) = k
                 /\ futures[p].st = "write"
                 /\ futures'[p].wrote
    /\ \A p \in Submitted :
         (futures[p].st = "write" /\ p \in DOMAIN futures'
            /\ Outcome(futures'[p]) = "success")
            => output'[OutputKey(p)] = File(futures[p].df_filtrado)

\* C19: with force_reprocess true procesar_particion never returns 'skipped';
\* whether or not the output exists it goes on to read, filter and write, and
\* a write replaces only the target file of that (year, week).
C19_ForcedReprocessWritesOnlyTarget ==
    /\ [](Force
            => \A p \in Submitted :
                 /\ Outcome(futures[p]) # "skipped"
                 /\ (futures[p].sawOutput # "none"
                       /\ Outcome(futures[p]) \notin {"error", "critical"})
                      => \/ futures[p].st \in {"read", "loaded", "filter", "write"}
                         \/ Outcome(futures[p]) = "success"
                 /\ Outcome(futures[p]) = "success"
                      => /\ futures[p].opened
                         /\ futures[p].wrote
                         /\ futures[p].resultado.stats # NoResult
                         /\ output[OutputKey(p)].exists)
    /\ [][Force => WriteFrame]_vars

C19_Witness ==
    /\ Force
    /\ \E p, q \in Submitted :
         /\ OutputKey(p) # OutputKey(q)
         /\ futures[p].existedAtCall
         /\ futures[p].sawOutput = "exists"
         /\ Outcome(futures[p]) = "success"
         /\ futures[q].st = "pending"
         /\ output[OutputKey(q)] = prev.output[OutputKey(q)]

\* C20: the Arrow table is released before aplicar_filtros is invoked, the
\* unfiltered frame before the output write starts, and a worker that has
\* returned (or ended) holds none of the three structures.
C20_StructuresReleasedInOrder ==
    \A p \in Submitted :
        /\ futures[p].st = "loaded"
             => futures[p].tabla # NoFrame /\ futures[p].df = NoFrame
        /\ futures[p].st = "filter"
             => futures[p].tabla = NoFrame /\ futures[p].df # NoFrame
        /\ futures[p].st = "write"
             => /\ futures[p].tabla = NoFrame
                /\ futures[p].df = NoFrame
                /\ futures[p].df_filtrado # NoFrame
        /\ Finished(futures[p])
             => /\ futures[p].tabla = NoFrame
                /\ futures[p].df = NoFrame
                /\ futures[p].df_filtrado = NoFrame

C20_Witness ==
    \E p, q \in Submitted :
        /\ futures[p].st = "write"
        /\ futures[p].df = NoFrame
        /\ futures[p].df_filtrado # NoFrame
        /\ futures[q].st = "filter"
        /\ futures[q].tabla = NoFrame

(***************************************************************************)
(* Two simultaneous executions                                             *)
(***************************************************************************)
\* Workers of either execution that reached the write of key k having found
\* the output absent
WroteAfterAbsent(k) ==
    Cardinality({p \in Submitted :
                    OutputKey(p) = k /\ futures[p].wrote
                        /\ futures[p].sawOutput = "absent"})
    + Cardinality({p \in DOMAIN other :
                    OutputKey(p) = k /\ other[p].wrote
                        /\ other[p].sawOutput = "absent"})

\* C16: with FORCE_REPROCESS false, the probe and the write of two
\* simultaneous executions interleave: every artifact stored comes from a
\* worker whose probe found the output absent, whatever was stored between
\* its probe and its write, so both executions can write the same file.
C16_ProbeThenWriteNotAtomic ==
    ~Force
        => /\ \A p \in Submitted : futures[p].wrote => futures[p].sawOutput = "absent"
           /\ \A p \in DOMAIN other : other[p].wrote => other[p].sawOutput = "absent"
           /\ \A k \in OutputKeys : writes[k] <= WroteAfterAbsent(k)

C16_Witness ==
    /\ ~Force
    /\ \E p \in Submitted :
         /\ p \in DOMAIN other
         /\ \A q \in Submitted : OutputKey(q) = OutputKey(p) => q = p
         /\ futures[p].sawOutput = "absent"
         /\ other[p].sawOutput = "absent"
         /\ Outcome(futures[p]) = "success"
         /\ Outcome(other[p]) = "success"
         /\ writes[OutputKey(p)] = 2

(***************************************************************************)
(* Termination of main                                                     *)
(***************************************************************************)
\* C18: once the partitions are submitted main eventually returns, provided
\* every worker ends; it has no timeout, so it returns only after every
\* future has ended and been handled: a worker that never ends keeps main
\* from its summary for ever.
C18_MainReturnsOnlyAfterAllWorkers ==
    /\ [](\A p \in Submitted :
            ~(Finished(futures[p]) /\ futures[p].collected)
                => mainPc # "returned")
    /\ (mainPc = "collect") ~> (mainPc = "returned" /\ exitCode \in {0, 1})

C18_Witness ==
    /\ mainPc = "returned"
    /\ Cardinality(Submitted) = 2
    /\ \A p \in Submitted : futures[p].collected
    /\ \E p \in Submitted : Outcome(futures[p]) = "critical"
    /\ exitCode = 1

(***************************************************************************)
(* Columns of the returned frame                                           *)
(***************************************************************************)
\* C21: the frame returned by aplicar_filtros holds none of the derived
\* fields t_vehiculo_total_seg, t_total_calculado_seg, d_vehiculo_eucl_total_m
\* and none of the temporary columns distancia_ruta_float, distancia_eucl_float.
C21_DerivedColumnsNotInOutput ==
    Called
        => fOut.ret.df.columns \cap (DerivedColumns \cup columnas_temporales) = {}

(***************************************************************************)
(* Discovery                                                               *)
(***************************************************************************)
\* Per layout: the (year, week) pairs of the week directories that hold their
\* data file, the paths of those directories, and whether a name is no integer
PairsWithData ==
    [l \in InputListings |->
        {<<PyInt(d.year).v, PyInt(d.week).v>> :
            d \in {e \in l : e.data /\ PyInt(e.year).ok /\ PyInt(e.week).ok}}]

PathsWithData ==
    [l \in InputListings |->
        {[year |-> d.year, week |-> d.week] : d \in {e \in l : e.data}}]

NamesRaise == [l \in InputListings |-> DiscoveryRaises(l)]

DiscoveredPairs == {<<p.year, p.week>> : p \in particiones}

\* Discovery has ended; an enumeration stopped by the store alone, on a layout
\* whose names all parse, is left aside.
DiscoveryEnded ==
    /\ mainPc \in {"collect", "returned"}
    /\ \/ mainErr = "none"
       \/ mainErr = "discovery" /\ NamesRaise[inputDirs]

\* C22 as stated: a descriptor exists for (year, week) exactly when the input
\* root has a directory iso_year=<year>/iso_week=<week> holding data-0.parquet.
C22_DescriptorIffDataFile ==
    DiscoveryEnded => DiscoveredPairs = PairsWithData[inputDirs]

\* C22 amended: when the enumeration completes, the descriptors are exactly
\* those of the week directories holding their data file, and only they are
\* dispatched; when it raises (a directory name that is no integer, or the
\* store), no descriptor exists, nothing is dispatched and main returns 1.
C22_DescriptorIffDataFileUnlessRaised ==
    /\ (mainPc \in {"collect", "returned"} /\ mainErr = "none")
         => /\ ~NamesRaise[inputDirs]
            /\ DiscoveredPairs = PairsWithData[inputDirs]
            /\ {p.path : p \in particiones} = PathsWithData[inputDirs]
            /\ Submitted = particiones
    /\ mainErr = "discovery"
         => /\ particiones = {}
            /\ Submitted = {}
            /\ mainPc = "returned"
            /\ exitCode = 1
    /\ NamesRaise[inputDirs] => particiones = {}

C22_Witness ==
    /\ mainPc = "returned"
    /\ mainErr = "none"
    /\ \E d \in inputDirs : ~d.data
    /\ Cardinality(particiones) = 1
    /\ \A p \in particiones : Outcome(futures[p]) = "success"

(***************************************************************************)
(* Batch counters                                                          *)
(***************************************************************************)
CountedPartitions ==
    stats_globales.particiones_procesadas
    + stats_globales.particiones_skipped
    + stats_globales.particiones_fallidas

\* C23: when main returns after the dispatch loop, particiones_procesadas +
\* particiones_skipped + particiones_fallidas is the number of discovered
\* partitions; during the loop it is the number of futures handled so far.
C23_CountersSumToPartitions ==
    /\ (mainPc = "collect" /\ mainErr = "none")
         => CountedPartitions = Cardinality(Collected)
    /\ (mainPc = "returned" /\ mainErr = "none")
         => /\ CountedPartitions = Cardinality(particiones)
            /\ Collected = particiones

C23_Witness ==
    /\ mainPc = "returned"
    /\ ~cfg.VERBOSE
    /\ \E p, q \in Submitted :
         /\ Outcome(futures[p]) = "skipped"
         /\ Outcome(futures[q]) = "critical"
    /\ CountedPartitions = 2

\* The totals a set of handled futures gives, whatever the order of handling
TotalsOf(ps) ==
    LET ok == {p \in ps : Outcome(futures[p]) = "success"}
    IN  [n_inicial              |-> SumStat(ok, "n_inicial"),
         n_filtrados_tiempo     |-> SumStat(ok, "n_filtrados_tiempo"),
         n_filtrados_paraderos  |-> SumStat(ok, "n_filtrados_paraderos"),
         n_filtrados_dist       |-> SumStat(ok, "n_filtrados_dist"),
         n_final                |-> SumStat(ok, "n_final"),
         particiones_procesadas |-> Cardinality(ok),
         particiones_skipped    |->
             Cardinality({p \in ps : Outcome(futures[p]) = "skipped"}),
         particiones_fallidas   |->
             Cardinality({p \in ps : Failed(futures[p])})]

\* C24: the counters of stats_globales and the exit status depend on the
\* outcomes of the partitions only, not on the order in which the futures
\* complete and are collected.
C24_TotalsIndependentOfOrder ==
    (mainErr = "none" /\ mainPc \in {"collect", "returned"})
        => /\ stats_globales = TotalsOf(Collected)
           /\ mainPc = "returned"
                => /\ stats_globales = TotalsOf(particiones)
                   /\ exitCode = IF \E p \in particiones : Failed(futures[p])
                                 THEN 1 ELSE 0

\* The partition listed second has been handled before the one listed first.
C24_Witness ==
    /\ mainPc = "collect"
    /\ cfg.VERBOSE
    /\ \E p, q \in Submitted :
         /\ p.week < q.week
         /\ Outcome(futures[p]) = "success" /\ ~futures[p].collected
         /\ Outcome(futures[q]) = "success" /\ futures[q].collected
         /\ stats_globales.n_inicial = futures[q].resultado.stats.n_inicial
         /\ stats_globales.n_inicial # futures[p].resultado.stats.n_inicial
         /\ stats_globales.particiones_procesadas = 1

(***************************************************************************)
(* Conservation of records                                                 *)
(***************************************************************************)
Conserved(st) ==
    st.n_inicial = st.n_filtrados_tiempo + st.n_filtrados_paraderos
                   + st.n_filtrados_dist + st.n_final

\* C25: the statistics aplicar_filtros returns for a partition satisfy
\* n_inicial = n_filtrados_tiempo + n_filtrados_paraderos + n_filtrados_dist
\* + n_final, and so do the batch totals after any sequence of collected
\* results.
C25_RecordsConserved ==
    /\ \A p \in Submitted :
         /\ futures[p].stats # NoResult
              => /\ Conserved(futures[p].stats)
                 /\ futures[p].stats.n_inicial = Len(InputFile(p.path).rows)
         /\ Outcome(futures[p]) = "success"
              => /\ Conserved(futures[p].resultado.stats)
                 /\ futures[p].resultado.stats = futures[p].stats
    /\ Conserved(stats_globales)

C25_Witness ==
    /\ mainPc = "returned"
    /\ stats_globales.particiones_procesadas = 2
    /\ stats_globales.n_inicial = 6
    /\ stats_globales.n_final = 2
    /\ stats_globales.n_filtrados_tiempo > 0
    /\ stats_globales.n_filtrados_paraderos > 0
    /\ stats_globales.n_filtrados_dist > 0

(***************************************************************************)
(* The two collection loops                                                *)
(***************************************************************************)
\* What each loop makes of stats_globales when it takes future f
VerboseStep(sg, f) ==
    IF f.st = "done" THEN AggregateVerbose(sg, f.resultado) ELSE CriticalVerbose(sg)

QuietStep(sg, f) ==
    IF f.st = "done" THEN AggregateQuiet(sg, f.resultado) ELSE CriticalQuiet(sg)

\* C26: the VERBOSE loop and the tqdm loop have the same effect: from the same
\* counters and the same worker outcome both give the same counters, every
\* step of either loop is that common update, and so both end with the same
\* stats_globales and exit status.
C26_CollectionBranchesEquivalent ==
    /\ [](\A p \in Submitted :
            Finished(futures[p])
                => VerboseStep(stats_globales, futures[p])
                     = QuietStep(stats_globales, futures[p]))
    /\ [][\A p \in Submitted :
            (p \in DOMAIN futures' /\ ~futures[p].collected /\ futures'[p].collected)
                => /\ stats_globales' = VerboseStep(stats_globales, futures[p])
                   /\ stats_globales' = QuietStep(stats_globales, futures[p])]_vars
    /\ []((mainPc = "returned" /\ mainErr = "none")
            => /\ stats_globales = TotalsOf(particiones)
               /\ exitCode = ExitCode(TotalsOf(particiones)))

C26_Witness ==
    /\ mainPc = "returned"
    /\ ~cfg.VERBOSE
    /\ \E p, q \in Submitted :
         /\ Outcome(futures[p]) = "success"
         /\ Outcome(futures[q]) = "error"
    /\ stats_globales = VerboseStep(VerboseStep(ZeroStats,
                            futures[CHOOSE p \in Submitted : Outcome(futures[p]) = "success"]),
                            futures[CHOOSE q \in Submitted : Outcome(futures[q]) = "error"])
    /\ exitCode = 1

====
